---- MODULE Spec2Model ----
(***************************************************************************)
(* CAN SLIM screener: the backtrader strategy of utils.py, the paper       *)
(* portfolio section of app.py and the two per-ticker batch loops          *)
(* (app.py screening loop, utils.fetch_stock_data).                        *)
(*                                                                         *)
(* Prices are integers (currency units); products with the percentages of  *)
(* the source are compared after scaling by 100, so `a <= b * (1 - 0.07)`  *)
(* reads  a * 100 <= b * (100 - 7).  Broker cash is kept in thousandths so *)
(* that the 0.1% commission is exact.                                      *)
(***************************************************************************)
EXTENDS Integers, Sequences, FiniteSets, TLC

VARIABLES
    \* ---- utils.py: CANSLIMStrategy under cerebro.run() ----
    feed,        \* the bars delivered so far (the data feed up to len(self))
    spc,         \* "advance": cerebro delivers the next bar; "next": the strategy is called
    position,    \* broker position of datas[0]: [size, price, dt]
    buy_price,   \* self.buy_price: {} is None, {p} is p
    order,       \* self.order: {} is None
    pending,     \* orders submitted to the broker and not yet settled
    bcash,       \* broker cash, in thousandths
    \* ---- app.py: paper portfolio ----
    persisted,   \* content of paper_portfolio.json
    portfolio,   \* the in-memory portfolio dict
    total_value, \* the total written by st.write at line 296: {} while not reported
    msg,         \* the last st.error / st.success / st.warning of a handler
    quotes,      \* per ticker, what yf.Ticker(t).history('1d') gave the update loop
    clicked,     \* the button that is True in this script run
    buy_stock, buy_shares,      \* widgets of lines 300-301
    current_price,              \* line 310: the last stored close, {} while unset
    sell_stock, sell_shares,    \* widgets of lines 338-339
    current_data,               \* line 347: the 1-day history fetched by the sell handler
    lpc,         \* position of the script run: "load", "revalue", "buttons", "halted"
    \* ---- batch loops ----
    tickers,     \* the ticker list of the batch
    stored,      \* stored_data['stocks']: ticker -> "none" | "empty" | "data"
    fetch_fresh, \* app.py line 124
    bi, bj,      \* outer loop variable i and the offset inside the current batch
    processed,   \* app.py `processed`
    results,     \* app.py `results`: the tickers of the rows appended
    fetched,     \* fetch_stock_data `results`: the keys of the dict
    attempts,    \* per list index, how often the loop body ran for it
    outcome,     \* per list index, what happened to it
    bpc,         \* "screen" | "screened" | "refresh" | "refreshed"
    \* ---- utils.py: calculate_score, run_backtest, log_error ----
    ticker,      \* the ticker of the record handed to calculate_score / run_backtest
    data,        \* the record: the `data` argument of calculate_score
    score,       \* what the call of calculate_score gave its caller: {} before the call
    error_log,   \* the lines of errors.log appended so far
    bt_result,   \* what run_backtest returned: {} while it has not returned
    upc          \* "score" | "scored" | "idle"

svars == <<feed, spc, position, buy_price, order, pending, bcash>>
lvars == <<persisted, portfolio, total_value, msg, quotes, clicked,
           buy_stock, buy_shares, current_price, sell_stock, sell_shares, current_data, lpc>>
bvars == <<tickers, stored, fetch_fresh, bi, bj, processed, results, fetched,
           attempts, outcome, bpc>>
uvars == <<ticker, data, score, error_log, bt_result, upc>>
vars == <<svars, lvars, bvars, uvars>>

-----------------------------------------------------------------------------
(* Bounds of the model *)

MaxBars == 7       \* length of the replayed bar series
SmaPeriod == 2     \* window of the SMA indicator (period=200 in the source)
HighPeriod == 3    \* window of the Highest indicator (period=252 in the source)

-----------------------------------------------------------------------------
(* utils.py: program constants *)

stop_loss_percent == 7     \* 0.07, in percent
trail_percent == 10        \* 0.10, in percent
StartCash == 100000        \* cerebro.broker.set_cash(100000.0)
CommissionPerMille == 1    \* setcommission(commission=0.001)

\* The bars a feed is made of: Open, High, Close (Low and Volume are read by
\* nothing in the strategy).
Bars ==
    { [open |-> 80,  high |-> 80,  close |-> 80],
      [open |-> 80,  high |-> 90,  close |-> 90],
      [open |-> 80,  high |-> 100, close |-> 100],
      [open |-> 100, high |-> 100, close |-> 90],
      [open |-> 100, high |-> 100, close |-> 100] }

Max(a, b) == IF a >= b THEN a ELSE b

\* The last n bars of s (all of s when it is shorter).
LastN(s, n) == SubSeq(s, Max(1, Len(s) - n + 1), Len(s))

RECURSIVE SumClose(_)
SumClose(s) == IF s = <<>> THEN 0 ELSE s[1].close + SumClose(Tail(s))

RECURSIVE MaxClose(_)
MaxClose(s) == IF s = <<>> THEN 0 ELSE Max(s[1].close, MaxClose(Tail(s)))

RECURSIVE MaxHigh(_)
MaxHigh(s) == IF s = <<>> THEN 0 ELSE Max(s[1].high, MaxHigh(Tail(s)))

\* self.data_close[0]
data_close(f) == f[Len(f)].close

\* self.data_close[0] > self.sma_200[0], the mean taken over the window
AboveSma(f) == data_close(f) * SmaPeriod > SumClose(LastN(f, SmaPeriod))

\* self.highest_high[0]: bt.indicators.Highest over self.data_close
highest_high(f) == MaxClose(LastN(f, HighPeriod))

\* backtrader calls prenext() until every indicator has its minimum period
MinPeriod == Max(SmaPeriod, HighPeriod)

\* Variant of StopLossHit: the close compared to itself, as line 200 does.
StopLossHit_self(close, bp) == close * 100 <= close * (100 - stop_loss_percent)

\* close <= buy_price * (1 - stop_loss_percent)
StopLossHit(close, bp) == close * 100 <= bp * (100 - stop_loss_percent)

\* close <= close * (1 - trail_percent): line 200 compares the close to itself
TrailHit(close) == close * 100 <= close * (100 - trail_percent)

\* The default sizer: FixedSize(stake=1).
Stake == 1

BuyOrder(f) == [isbuy |-> TRUE, size |-> Stake, created |-> data_close(f)]
SellOrder(f) == [isbuy |-> FALSE, size |-> Stake, created |-> data_close(f)]

\* Variant of Submitted: the entry test made without looking at self.position.
Submitted_pyramiding(f, pos, bp, ord) ==
    IF ord # {} THEN <<>>
    ELSE IF AboveSma(f) /\ data_close(f) >= highest_high(f) THEN <<BuyOrder(f)>>
    ELSE IF pos.size = 0 THEN <<>>
    ELSE IF \E p \in bp : StopLossHit(data_close(f), p) THEN <<SellOrder(f)>>
    ELSE IF TrailHit(data_close(f)) THEN <<SellOrder(f)>>
    ELSE <<>>

\* What CANSLIMStrategy.next submits on the current bar: a sequence of orders.
\* The result of self.buy() / self.sell() is never stored in self.order.
Submitted(f, pos, bp, ord) ==
    IF ord # {} THEN <<>>
    ELSE IF pos.size = 0
    THEN IF AboveSma(f) /\ data_close(f) >= highest_high(f)
         THEN <<BuyOrder(f)>> ELSE <<>>
    ELSE IF \E p \in bp : StopLossHit(data_close(f), p) THEN <<SellOrder(f)>>
    ELSE IF TrailHit(data_close(f)) THEN <<SellOrder(f)>>
    ELSE <<>>

\* The strategy is called on the bar just delivered: prenext() (a no-op) while
\* the indicators are warming up, next() afterwards.
next ==
    /\ spc = "next"
    /\ pending' = IF Len(feed) < MinPeriod
                  THEN pending
                  ELSE pending \o Submitted(feed, position, buy_price, order)
    /\ spc' = "advance"
    /\ UNCHANGED <<feed, position, buy_price, order, bcash>>
    /\ UNCHANGED <<lvars, bvars, uvars>>

\* Commission of an execution of `size` at `price`, in thousandths.
Commission(size, price) == size * price * CommissionPerMille

\* BackBroker.check_submitted: the order is accepted when the cash left after a
\* pseudo-execution at the price it was created with is not negative.
Accepted(o, cash) ==
    \/ ~o.isbuy
    \/ cash - o.size * o.created * 1000 - Commission(o.size, o.created) >= 0

\* State of broker and strategy after the broker settles order o on a bar
\* opening at `open` (a Market order executes at the open of the bar after the
\* one it was created on), and notify_order has run.
Settle(o, open, n, st) ==
    IF ~Accepted(o, st.bcash)
    THEN st    \* Margin: notify_order sees a status other than Completed
    ELSE IF o.isbuy
    THEN [ position  |-> [size |-> st.position.size + o.size, price |-> open, dt |-> n],
           bcash     |-> st.bcash - o.size * open * 1000 - Commission(o.size, open),
           buy_price |-> {open},      \* notify_order: order.executed.price
           order     |-> {} ]
    ELSE [ position  |-> [size |-> st.position.size - o.size, price |-> st.position.price, dt |-> n],
           bcash     |-> st.bcash + o.size * open * 1000 - Commission(o.size, open),
           buy_price |-> st.buy_price,
           order     |-> {} ]

RECURSIVE SettleAll(_, _, _, _)
SettleAll(os, open, n, st) ==
    IF os = <<>> THEN st
    ELSE SettleAll(Tail(os), open, n, Settle(os[1], open, n, st))

\* cerebro.run(): the feed delivers the next bar, the broker settles what was
\* submitted on the previous bar and notifies the strategy.
Advance ==
    /\ spc = "advance"
    /\ Len(feed) < MaxBars
    /\ \E b \in Bars :
        LET st == SettleAll(pending, b.open, Len(feed) + 1,
                            [position |-> position, bcash |-> bcash,
                             buy_price |-> buy_price, order |-> order])
        IN  /\ feed' = Append(feed, b)
            /\ position' = st.position
            /\ bcash' = st.bcash
            /\ buy_price' = st.buy_price
            /\ order' = st.order
    /\ pending' = <<>>
    /\ spc' = "next"
    /\ UNCHANGED <<lvars, bvars, uvars>>

-----------------------------------------------------------------------------
(* app.py: the paper portfolio (lines 227-367).  Streamlit runs the script   *)
(* from the top on every interaction: load, update loop, save, display, and  *)
(* then the handler of the one button that was clicked.                      *)

MaxPositions == 2      \* positions in the portfolio file

DefaultCash == 100000  \* line 236

LedgerTickers == {"A", "B"}
FileCash == {500}
FileShares == {2}
FileBuyPrice == {100}
SharesInput == {1, 2, 3}    \* st.number_input(min_value=1)
ClosePrices == {90, 110}    \* closes a 1-day history can end with

\* pos.get(key, default) on a field kept as {} (absent) or {v}
Get(field, default) == IF field = {} THEN default ELSE CHOOSE v \in field : TRUE

\* A position dict; current_price is a key the file may or may not carry.
Positions ==
    [ticker : LedgerTickers, buy_price : FileBuyPrice, shares : FileShares,
     current_price : {{}} \cup {{p} : p \in FileBuyPrice}]

SeqsUpTo(S, n) == UNION {[1..k -> S] : k \in 0..n}

EmptyPortfolio == [cash |-> 0, positions |-> <<>>]
DefaultPortfolio == [cash |-> DefaultCash, positions |-> <<>>]

\* yf.Ticker(t).history(period='1d'): raises, is empty, or ends with a close
Histories ==
    {[kind |-> "raise", close |-> 0], [kind |-> "empty", close |-> 0]}
        \cup {[kind |-> "price", close |-> p] : p \in ClosePrices}
NoHistory == [kind |-> "none", close |-> 0]

\* with open(paper_file, 'w') as f: json.dump(portfolio, f)
\*   "ok": written; "open": open() raises, the file is untouched;
\*   "dump": the write raises after open(.., 'w') truncated the file
SaveOutcomes == {"ok", "open", "dump"}
Saved(file, pf, how) ==
    IF how = "ok" THEN [state |-> "ok", data |-> pf]
    ELSE IF how = "open" THEN file
    ELSE [state |-> "truncated", data |-> EmptyPortfolio]

\* stored_data['stocks'].get(t) or cached_fetch_stock_data(t), lines 249, 305:
\*   "nostocks": stored_data has no 'stocks' key (KeyError)
\*   "none":     no record for t: cached_fetch_stock_data(t) calls
\*               fetch_stock_data(max_tickers=t), whose tickers[:t] raises TypeError
\*   "data":     a record
StoredStates == {"nostocks", "none", "data"}

\* lines 232-236
Load ==
    /\ lpc = "load"
    /\ \/ /\ persisted.state = "ok"
          /\ portfolio' = persisted.data
          /\ lpc' = "revalue"
       \/ /\ persisted.state = "missing"      \* FileNotFoundError
          /\ portfolio' = DefaultPortfolio
          /\ lpc' = "revalue"
       \/ /\ persisted.state = "truncated"    \* json.load raises, uncaught
          /\ portfolio' = EmptyPortfolio
          /\ lpc' = "halted"
    /\ total_value' = {}
    /\ msg' = ""
    /\ quotes' = [t \in LedgerTickers |-> NoHistory]
    /\ clicked' = "none"
    /\ buy_stock' = "" /\ buy_shares' = 0 /\ current_price' = {}
    /\ sell_stock' = "" /\ sell_shares' = 0
    /\ current_data' = NoHistory
    /\ UNCHANGED persisted
    /\ UNCHANGED <<svars, bvars, uvars>>

\* One pass of the update loop body (lines 241-272) for position pos, given
\* the 1-day history h and the state rec of the stored record:
\* [keep |-> is pos appended to updated_positions, pos, credit |-> added to cash]
UpdateOne(pos, h, rec) ==
    IF h.kind = "raise"
    THEN [keep |-> TRUE, pos |-> pos, credit |-> 0]               \* except, 268-272
    ELSE IF h.kind = "empty"
    THEN [keep |-> TRUE, pos |-> pos, credit |-> 0]               \* 244-246
    ELSE IF rec # "data"
    THEN [keep |-> TRUE, pos |-> pos, credit |-> 0]               \* line 249 raises
    \* line 252: talib is imported nowhere in app.py, talib.SMA raises NameError;
    \* the sell test of lines 255-261 and the update of line 264 are never reached
    ELSE [keep |-> TRUE, pos |-> pos, credit |-> 0]               \* except, 268-272

\* The whole loop: [positions |-> updated_positions, cash].
RECURSIVE UpdateAll(_, _, _, _)
UpdateAll(ps, cash, hs, recs) ==
    IF ps = <<>> THEN [positions |-> <<>>, cash |-> cash]
    ELSE LET one  == UpdateOne(ps[1], hs[ps[1].ticker], recs[ps[1].ticker])
             rest == UpdateAll(Tail(ps), cash + one.credit, hs, recs)
         IN  [positions |-> (IF one.keep THEN <<one.pos>> ELSE <<>>) \o rest.positions,
              cash |-> rest.cash]

\* line 294: pos.get('current_price', 0) * pos['shares'], summed
RECURSIVE SumValue(_)
SumValue(ps) ==
    IF ps = <<>> THEN 0
    ELSE Get(ps[1].current_price, 0) * ps[1].shares + SumValue(Tail(ps))

\* line 286: df_port['current_price'] raises KeyError when no position dict
\* carries the key
DisplayRaises(ps) == ps # <<>> /\ \A k \in 1..Len(ps) : ps[k].current_price = {}

\* lines 238-296: update loop, save, display, total
Revalue ==
    /\ lpc = "revalue"
    /\ \E hs \in [LedgerTickers -> Histories], recs \in [LedgerTickers -> StoredStates],
          how \in SaveOutcomes :
        LET upd == UpdateAll(portfolio.positions, portfolio.cash, hs, recs)
            pf  == [cash |-> upd.cash, positions |-> upd.positions]
        IN  /\ quotes' = hs
            /\ portfolio' = pf
            /\ persisted' = Saved(persisted, pf, how)
            /\ IF DisplayRaises(pf.positions)
               THEN total_value' = {} /\ lpc' = "halted"
               ELSE total_value' = {pf.cash + SumValue(pf.positions)} /\ lpc' = "buttons"
    /\ UNCHANGED <<msg, clicked, buy_stock, buy_shares, current_price, sell_stock,
                   sell_shares, current_data>>
    /\ UNCHANGED <<svars, bvars, uvars>>

\* The buy handler, lines 302-334, for stored record state rec whose history
\* ends with close c: [msg, current_price].  Every path ends in the handler's
\* except clause: line 305 raises for "nostocks" and "none", and line 311 raises
\* NameError (talib is imported nowhere in app.py) before the entry test, the
\* cash test, the append of lines 318-325 and the save of lines 326-327.
BuyHandler(rec, c) ==
    IF rec # "data"
    THEN [msg |-> "Error buying", current_price |-> {}]
    ELSE [msg |-> "Error buying", current_price |-> {c}]

Buy ==
    /\ lpc = "buttons"
    /\ \E t \in LedgerTickers, n \in SharesInput, rec \in StoredStates, c \in ClosePrices :
        LET r == BuyHandler(rec, c)
        IN  /\ buy_stock' = t
            /\ buy_shares' = n
            /\ msg' = r.msg
            /\ current_price' = r.current_price
    /\ clicked' = "buy"
    /\ lpc' = "load"
    /\ UNCHANGED <<persisted, portfolio, total_value, quotes, sell_stock, sell_shares,
                   current_data>>
    /\ UNCHANGED <<svars, bvars, uvars>>

\* Index of the first position of ticker t, 0 when there is none.
RECURSIVE FirstOf(_, _, _)
FirstOf(ps, t, k) ==
    IF k > Len(ps) THEN 0
    ELSE IF ps[k].ticker = t THEN k
    ELSE FirstOf(ps, t, k + 1)

RemoveAt(s, k) == SubSeq(s, 1, k - 1) \o SubSeq(s, k + 1, Len(s))

\* Variant of SellHandler: the test of line 343 (sell_shares > pos['shares']) left out.
SellHandler_unchecked(pf, file, t, n, h, how) ==
    LET k == FirstOf(pf.positions, t, 1)
        same(m, cd) == [portfolio |-> pf, persisted |-> file, msg |-> m, current_data |-> cd]
    IN  IF k = 0 THEN same("Position not found.", NoHistory)
        ELSE IF h.kind = "raise" THEN same("Error selling", h)
        ELSE IF h.kind = "empty" THEN same("Unable to fetch current price.", h)
        ELSE LET left == pf.positions[k].shares - n
                 ps   == IF left = 0
                         THEN RemoveAt(pf.positions, k)
                         ELSE [pf.positions EXCEPT ![k].shares = left]
                 pf2  == [cash |-> pf.cash + h.close * n, positions |-> ps]
             IN  [portfolio |-> pf2,
                  persisted |-> Saved(file, pf2, how),
                  msg |-> IF how = "ok" THEN "Sold" ELSE "Error selling",
                  current_data |-> h]

\* The sell handler, lines 340-367: [portfolio, persisted, msg, current_data].
SellHandler(pf, file, t, n, h, how) ==
    LET k == FirstOf(pf.positions, t, 1)
        same(m, cd) == [portfolio |-> pf, persisted |-> file, msg |-> m, current_data |-> cd]
    IN  IF k = 0 THEN same("Position not found.", NoHistory)
        ELSE IF n > pf.positions[k].shares THEN same("Not enough shares to sell.", NoHistory)
        ELSE IF h.kind = "raise" THEN same("Error selling", h)
        ELSE IF h.kind = "empty" THEN same("Unable to fetch current price.", h)
        ELSE LET left == pf.positions[k].shares - n
                 ps   == IF left = 0
                         THEN RemoveAt(pf.positions, k)
                         ELSE [pf.positions EXCEPT ![k].shares = left]
                 pf2  == [cash |-> pf.cash + h.close * n, positions |-> ps]
             IN  [portfolio |-> pf2,
                  persisted |-> Saved(file, pf2, how),
                  msg |-> IF how = "ok" THEN "Sold" ELSE "Error selling",
                  current_data |-> h]

\* line 338: the selectbox offers the tickers of the positions (None when empty)
SellChoices(ps) == IF ps = <<>> THEN {""} ELSE {ps[k].ticker : k \in 1..Len(ps)}

Sell ==
    /\ lpc = "buttons"
    /\ \E t \in SellChoices(portfolio.positions), n \in SharesInput, h \in Histories,
          how \in SaveOutcomes :
        LET r == SellHandler(portfolio, persisted, t, n, h, how)
        IN  /\ sell_stock' = t
            /\ sell_shares' = n
            /\ portfolio' = r.portfolio
            /\ persisted' = r.persisted
            /\ msg' = r.msg
            /\ current_data' = r.current_data
    /\ clicked' = "sell"
    /\ lpc' = "load"
    /\ UNCHANGED <<total_value, quotes, buy_stock, buy_shares, current_price>>
    /\ UNCHANGED <<svars, bvars, uvars>>

\* The script run ends with no button clicked, or was halted by an uncaught
\* exception; the next interaction runs the script again.
Rerun ==
    /\ lpc \in {"buttons", "halted"}
    /\ lpc' = "load"
    /\ UNCHANGED <<persisted, portfolio, total_value, msg, quotes, clicked, buy_stock,
                   buy_shares, current_price, sell_stock, sell_shares, current_data>>
    /\ UNCHANGED <<svars, bvars, uvars>>

FilePortfolios ==
    {[cash |-> c, positions |-> ps] :
        c \in FileCash, ps \in SeqsUpTo(Positions, MaxPositions)}

-----------------------------------------------------------------------------
(* The per-ticker batch loops: the screening loop of app.py (lines 126-160)  *)
(* and fetch_stock_data of utils.py (lines 84-119).                          *)

MaxTickers == 3    \* length of the ticker list
batch_size == 2    \* tickers per batch (50 in the source)

BatchTickers == {"A", "B", "C"}

Min(a, b) == IF a <= b THEN a ELSE b

\* len(tickers[i:i + batch_size])
BatchLen(ts, i) == Min(batch_size, Len(ts) - i)

\* The loop variables after the body ran for offset j of the batch starting at i.
Advanced(ts, i, j) ==
    IF j + 1 < BatchLen(ts, i) THEN [bi |-> i, bj |-> j + 1]
    ELSE [bi |-> i + batch_size, bj |-> 0]

\* What the body of the screening loop does for ticker t (lines 130-160):
\*   "fetch_error": line 132, cached_fetch_stock_data(t) is fetch_stock_data(t),
\*                  whose tickers[:max_tickers] raises TypeError for a string
\*   "score_error": line 140 calls calculate_score with five arguments, which
\*                  takes one: TypeError
\*   "no_data":     the stored record is falsy, line 139 skips it
ScreenOne(t, fresh, st) ==
    IF fresh \/ st[t] = "none" THEN "fetch_error"
    ELSE IF st[t] = "data" THEN "score_error"
    ELSE "no_data"

\* line 148
AfterBody(p) == p + 1

\* Variant of AfterExcept: the except clause without its `processed += 1`.
AfterExcept_uncounted(p) == p

\* line 157, in the except clause
AfterExcept(p) == p + 1

ScreenTicker ==
    /\ bpc = "screen"
    /\ bi < Len(tickers)
    /\ LET k   == bi + bj + 1
           out == ScreenOne(tickers[k], fetch_fresh, stored)
           nxt == Advanced(tickers, bi, bj)
       IN  /\ processed' = IF out = "no_data" THEN AfterBody(processed)
                                               ELSE AfterExcept(processed)
           /\ attempts' = [attempts EXCEPT ![k] = @ + 1]
           /\ outcome' = [outcome EXCEPT ![k] = out]
           /\ bi' = nxt.bi
           /\ bj' = nxt.bj
    /\ UNCHANGED <<tickers, stored, fetch_fresh, results, fetched, bpc>>
    /\ UNCHANGED <<svars, lvars, uvars>>

\* lines 162-169: the loop is over
ScreenDone ==
    /\ bpc = "screen"
    /\ bi >= Len(tickers)
    /\ bpc' = "screened"
    /\ UNCHANGED <<tickers, stored, fetch_fresh, bi, bj, processed, results, fetched,
                   attempts, outcome>>
    /\ UNCHANGED <<svars, lvars, uvars>>

\* fetch_single_stock returns a record, or None after logging (empty history,
\* invalid format, any exception)
FetchResults == {"data", "none"}

\* lines 100-102: results[ticker] = data when data is truthy
Fetched(res, t, r) == IF r = "data" THEN res \cup {t} ELSE res

FetchTicker ==
    /\ bpc = "refresh"
    /\ bi < Len(tickers)
    /\ \E r \in FetchResults :
        LET k   == bi + bj + 1
            nxt == Advanced(tickers, bi, bj)
        IN  /\ fetched' = Fetched(fetched, tickers[k], r)
            /\ attempts' = [attempts EXCEPT ![k] = @ + 1]
            /\ outcome' = [outcome EXCEPT ![k] = r]
            /\ bi' = nxt.bi
            /\ bj' = nxt.bj
    /\ UNCHANGED <<tickers, stored, fetch_fresh, processed, results, bpc>>
    /\ UNCHANGED <<svars, lvars, uvars>>

\* lines 108-119: file_data['stocks'] = results is written, or the failure logged
RefreshDone ==
    /\ bpc = "refresh"
    /\ bi >= Len(tickers)
    /\ \E ok \in BOOLEAN :
        stored' = IF ok THEN [t \in BatchTickers |-> IF t \in fetched THEN "data" ELSE "none"]
                  ELSE stored
    /\ bpc' = "refreshed"
    /\ UNCHANGED <<tickers, fetch_fresh, bi, bj, processed, results, fetched,
                   attempts, outcome>>
    /\ UNCHANGED <<svars, lvars, uvars>>

-----------------------------------------------------------------------------
(* utils.py: log_error, calculate_score (lines 21-25, 121-167) and the call  *)
(* of calculate_score in the screening loop (app.py lines 139-147).          *)
(*                                                                           *)
(* A value read from the record is [t, v]: t = "null" is None, "nan" is the  *)
(* float NaN, "str" a string, "num" the number v.  eps_growth and roe are in *)
(* hundredths, market_cap in billions, so `> 0.25` reads `> 25`, `> 10e9`    *)
(* reads `> 10`.  RSI and MACD are what pandas_ta returned for the last two  *)
(* rows; the 200-bar rolling mean is computed from the closes.               *)

MaxHist == 3       \* longest history of a scored record

\* len(hist_df) < 200 and rolling(200): the 200 of lines 126 and 133
MinHist == SmaPeriod

Null == [t |-> "null", v |-> 0]
NaN == [t |-> "nan", v |-> 0]
Str == [t |-> "str", v |-> 0]
Num(n) == [t |-> "num", v |-> n]

\* Python truth value of a field: None and 0 are false, NaN and a non-empty
\* string are true.
Truthy(x) == x.t = "str" \/ x.t = "nan" \/ (x.t = "num" /\ x.v # 0)

\* x > n, x >= n, x < n with a number n: TypeError for None and for a string,
\* False for NaN.
Raises(x) == x.t \in {"null", "str"}
Gt(x, n) == x.t = "num" /\ x.v > n
Lt(x, n) == x.t = "num" /\ x.v < n

\* log_error(ticker, message), lines 21-25: logging.error writes one line
\* through the FileHandler that basicConfig (line 18) put on errors.log, and
\* the function appends a second line itself.
log_error(key) == << [ticker |-> key, by |-> "logging"], [ticker |-> key, by |-> "write"] >>

\* data['fundamentals'] as fetch_single_stock builds it (lines 60-69) or as
\* the store holds it
Fundamentals ==
    [ eps_growth : {Null, Str, Num(25), Num(26)},
      roe : {Null, Num(17), Num(18)},
      market_cap : {Null, Num(2), Num(3), Num(11)},
      fiftyTwoWeekHigh : {Null, Num(100)},
      price : {Num(94), Num(95)} ]

NullFundamentals ==
    [ eps_growth |-> Null, roe |-> Null, market_cap |-> Null,
      fiftyTwoWeekHigh |-> Null, price |-> Num(94) ]

\* the last two rows of the columns pandas_ta adds (lines 130-132): macd is
\* {} when the MACD columns are absent, else {[macd, signal]}
Indicators ==
    [ rsi : {NaN, Num(60), Num(70)},
      prev_rsi : {NaN, Num(50), Num(70)},
      macd : {{}} \cup {{[macd |-> m, signal |-> Num(0)]} : m \in {NaN, Num(0), Num(1)}} ]

NoIndicators == [rsi |-> NaN, prev_rsi |-> NaN, macd |-> {}]

\* the Close column of data['hist']
Closes == UNION {[1..n -> {1, 2}] : n \in 0..MaxHist}

NoData == [has_fundamentals |-> FALSE, fundamentals |-> NullFundamentals,
           has_close |-> FALSE, hist |-> <<>>, ta |-> NoIndicators]

\* The records handed to calculate_score: well-formed ones, and records whose
\* 'fundamentals' key or whose 'Close' column is missing.
Records ==
    { [has_fundamentals |-> TRUE, fundamentals |-> f, has_close |-> TRUE, hist |-> h, ta |-> i] :
          f \in Fundamentals, h \in {c \in Closes : Len(c) >= MinHist /\ Len(c) = MaxHist},
          i \in Indicators }
    \cup
    { [has_fundamentals |-> hf, fundamentals |-> NullFundamentals, has_close |-> hc,
       hist |-> h, ta |-> NoIndicators] :
          hf \in BOOLEAN, hc \in BOOLEAN, h \in Closes }

\* lines 139-148
f_score_both_tiers(fund) ==
      (IF Truthy(fund.eps_growth) /\ Gt(fund.eps_growth, 25) THEN 40 ELSE 0)
    + (IF Truthy(fund.roe) /\ Gt(fund.roe, 17) THEN 30 ELSE 0)
    + (IF Truthy(fund.market_cap) /\ Gt(fund.market_cap, 10) THEN 10 ELSE 0)
    + (IF Truthy(fund.market_cap) /\ Gt(fund.market_cap, 2) THEN 5 ELSE 0)

f_score(fund) ==
      (IF Truthy(fund.eps_growth) /\ Gt(fund.eps_growth, 25) THEN 40 ELSE 0)
    + (IF Truthy(fund.roe) /\ Gt(fund.roe, 17) THEN 30 ELSE 0)
    + (IF Truthy(fund.market_cap)
       THEN IF Gt(fund.market_cap, 10) THEN 10
            ELSE IF Gt(fund.market_cap, 2) THEN 5 ELSE 0
       ELSE 0)

\* a comparison of lines 140-147 that raises TypeError: a truthy field that is
\* not a number
FundRaises(fund) ==
    \/ Truthy(fund.eps_growth) /\ Raises(fund.eps_growth)
    \/ Truthy(fund.roe) /\ Raises(fund.roe)
    \/ Truthy(fund.market_cap) /\ Raises(fund.market_cap)
    \/ /\ Truthy(fund.fiftyTwoWeekHigh) /\ Truthy(fund.price)
       /\ (Raises(fund.fiftyTwoWeekHigh) \/ Raises(fund.price))

\* lines 133, 157: latest['Close'] > latest['sma_200'], the mean of the last
\* 200 closes
AboveSma200(h) ==
    LET w == SubSeq(h, Len(h) - MinHist + 1, Len(h))
        Sum[k \in 0..MinHist] == IF k = 0 THEN 0 ELSE Sum[k - 1] + w[k]
    IN  h[Len(h)] * MinHist > Sum[MinHist]

\* lines 151-161
t_score(d) ==
      (IF Lt(d.ta.rsi, 70) /\ Lt(d.ta.prev_rsi, 70)
          /\ d.ta.rsi.t = "num" /\ d.ta.prev_rsi.t = "num" /\ d.ta.rsi.v > d.ta.prev_rsi.v
       THEN 20 ELSE 0)
    + (IF \E m \in d.ta.macd : m.macd.t = "num" /\ m.signal.t = "num" /\ m.macd.v > m.signal.v
       THEN 20 ELSE 0)
    + (IF AboveSma200(d.hist) THEN 20 ELSE 0)
    + (IF Truthy(d.fundamentals.fiftyTwoWeekHigh) /\ Truthy(d.fundamentals.price)
          /\ d.fundamentals.price.t = "num" /\ d.fundamentals.fiftyTwoWeekHigh.t = "num"
          /\ d.fundamentals.price.v * 100 >= 95 * d.fundamentals.fiftyTwoWeekHigh.v
       THEN 20 ELSE 0)

\* calculate_score(data), lines 121-167: what it returns and what it appends
\* to errors.log.  Every exception of the body lands in the except clause of
\* line 165, which logs under the key "N/A" (the function is not given the
\* ticker).
Degraded == [raised |-> FALSE, ret |-> <<0, 0, 0>>, log |-> log_error("N/A")]

calculate_score(d) ==
    IF ~d.has_fundamentals THEN Degraded                 \* line 124: KeyError
    ELSE IF Len(d.hist) < MinHist
    THEN [raised |-> FALSE, ret |-> <<0, 0, 0>>, log |-> <<>>]   \* lines 126-127
    ELSE IF ~d.has_close THEN Degraded                   \* line 130: KeyError
    ELSE IF FundRaises(d.fundamentals) THEN Degraded     \* lines 140-160: TypeError
    ELSE LET f == f_score(d.fundamentals)
             t == t_score(d)
         IN  [raised |-> FALSE, ret |-> <<f + t, f, t>>, log |-> <<>>]

\* a caller calls calculate_score(data) as the function is declared
Score ==
    /\ upc = "score"
    /\ LET r == calculate_score(data)
       IN  /\ score' = {[raised |-> r.raised, ret |-> r.ret]}
           /\ error_log' = error_log \o r.log
    /\ upc' = "scored"
    /\ UNCHANGED <<ticker, data, bt_result>>
    /\ UNCHANGED <<svars, lvars, bvars>>

\* app.py line 140: calculate_score(ticker, data, market_caps, sectors,
\* momentum) gives five arguments to a function of one, so the call raises
\* TypeError in the screening loop before the function body runs; the loop's
\* except clause (lines 153-156) appends a line of its own to errors.log.
ScreenScore ==
    /\ upc = "screen"
    /\ score' = {[raised |-> TRUE, ret |-> <<0, 0, 0>>]}
    /\ error_log' = Append(error_log, [ticker |-> ticker, by |-> "screen"])
    /\ upc' = "scored"
    /\ UNCHANGED <<ticker, data, bt_result>>
    /\ UNCHANGED <<svars, lvars, bvars>>

-----------------------------------------------------------------------------
(* utils.py: run_backtest (lines 203-241).  The replay itself, cerebro.run() *)
(* of line 222, is the Advance / next alternation above; Backtest is the     *)
(* rest of the function, taken when the feed has delivered all its bars.     *)

\* returned None
None == [kind |-> "None"]

\* run_backtest(ticker, data) on the bars f: what it returns and what it
\* appends to errors.log.
\*   line 211: fewer than 252 bars, None without a log entry (the strategy's
\*     minimum period is at least as long, so a replay of such a series is
\*     prenext() only and leaves nothing behind);
\*   line 226: cerebro.analyzers is a plain list, so .getbyname raises
\*     AttributeError on every run; no analyzer is ever added to cerebro, so
\*     lines 227 and 231-232 could not find one either.  The except clause of
\*     line 239 logs under the ticker and returns None; lines 225 and 234-238
\*     never produce a result.
run_backtest(tk, f) ==
    IF Len(f) < HighPeriod
    THEN [ret |-> None, log |-> <<>>]
    ELSE [ret |-> None, log |-> log_error(tk)]

\* the replay has ended, run_backtest returns to its caller
Backtest ==
    /\ upc = "backtest"
    /\ spc = "advance"
    /\ LET r == run_backtest(ticker, feed)
       IN  /\ bt_result' = {r.ret}
           /\ error_log' = error_log \o r.log
    /\ spc' = "done"
    /\ upc' = "idle"
    /\ UNCHANGED <<feed, position, buy_price, order, pending, bcash>>
    /\ UNCHANGED <<ticker, data, score>>
    /\ UNCHANGED <<lvars, bvars>>

-----------------------------------------------------------------------------
(* Specifications: one per part of the program; the other parts stay idle.   *)

\* cerebro with the strategy added, before run()
InitStrategy ==
    /\ feed = <<>>
    /\ spc = "advance"
    /\ position = [size |-> 0, price |-> 0, dt |-> 0]
    /\ buy_price = {}
    /\ order = {}
    /\ pending = <<>>
    /\ bcash = StartCash * 1000
    /\ persisted = [state |-> "missing", data |-> EmptyPortfolio]
    /\ portfolio = EmptyPortfolio
    /\ total_value = {} /\ msg = ""
    /\ quotes = [t \in LedgerTickers |-> NoHistory]
    /\ clicked = "none"
    /\ buy_stock = "" /\ buy_shares = 0 /\ current_price = {}
    /\ sell_stock = "" /\ sell_shares = 0
    /\ current_data = NoHistory
    /\ lpc = "idle"
    /\ tickers = <<>> /\ bpc = "idle"
    /\ stored = [t \in BatchTickers |-> "none"] /\ fetch_fresh = FALSE
    /\ bi = 0 /\ bj = 0 /\ processed = 0 /\ results = <<>> /\ fetched = {}
    /\ attempts = <<>> /\ outcome = <<>>
    /\ ticker = "" /\ data = NoData /\ score = {} /\ error_log = <<>>
    /\ bt_result = {} /\ upc = "idle"

NextStrategy == Advance \/ next
SpecStrategy == InitStrategy /\ [][NextStrategy]_vars

\* a session starts: paper_portfolio.json is absent or holds a portfolio
InitLedger ==
    /\ feed = <<>> /\ spc = "idle"
    /\ position = [size |-> 0, price |-> 0, dt |-> 0]
    /\ buy_price = {} /\ order = {} /\ pending = <<>> /\ bcash = 0
    /\ persisted \in {[state |-> "missing", data |-> EmptyPortfolio]}
                        \cup {[state |-> "ok", data |-> pf] : pf \in FilePortfolios}
    /\ portfolio = EmptyPortfolio
    /\ total_value = {}
    /\ msg = ""
    /\ quotes = [t \in LedgerTickers |-> NoHistory]
    /\ clicked = "none"
    /\ buy_stock = "" /\ buy_shares = 0 /\ current_price = {}
    /\ sell_stock = "" /\ sell_shares = 0
    /\ current_data = NoHistory
    /\ lpc = "load"
    /\ tickers = <<>> /\ bpc = "idle"
    /\ stored = [t \in BatchTickers |-> "none"] /\ fetch_fresh = FALSE
    /\ bi = 0 /\ bj = 0 /\ processed = 0 /\ results = <<>> /\ fetched = {}
    /\ attempts = <<>> /\ outcome = <<>>
    /\ ticker = "" /\ data = NoData /\ score = {} /\ error_log = <<>>
    /\ bt_result = {} /\ upc = "idle"

NextLedger == Load \/ Revalue \/ Buy \/ Sell \/ Rerun
SpecLedger == InitLedger /\ [][NextLedger]_vars

\* a batch starts over a ticker list: the screening loop or fetch_stock_data
InitBatch ==
    /\ feed = <<>> /\ spc = "idle"
    /\ position = [size |-> 0, price |-> 0, dt |-> 0]
    /\ buy_price = {} /\ order = {} /\ pending = <<>> /\ bcash = 0
    /\ persisted = [state |-> "missing", data |-> EmptyPortfolio]
    /\ portfolio = EmptyPortfolio
    /\ total_value = {} /\ msg = ""
    /\ quotes = [t \in LedgerTickers |-> NoHistory]
    /\ clicked = "none"
    /\ buy_stock = "" /\ buy_shares = 0 /\ current_price = {}
    /\ sell_stock = "" /\ sell_shares = 0
    /\ current_data = NoHistory
    /\ lpc = "idle"
    /\ tickers \in SeqsUpTo(BatchTickers, MaxTickers)
    /\ bpc \in {"screen", "refresh"}
    /\ IF bpc = "screen"
       THEN stored \in [BatchTickers -> {"none", "empty", "data"}] /\ fetch_fresh \in BOOLEAN
       ELSE stored = [t \in BatchTickers |-> "none"] /\ fetch_fresh = TRUE
    /\ bi = 0 /\ bj = 0
    /\ processed = 0
    /\ results = <<>>
    /\ fetched = {}
    /\ attempts = [k \in 1..Len(tickers) |-> 0]
    /\ outcome = [k \in 1..Len(tickers) |-> "pending"]
    /\ ticker = "" /\ data = NoData /\ score = {} /\ error_log = <<>>
    /\ bt_result = {} /\ upc = "idle"

NextBatch == ScreenTicker \/ ScreenDone \/ FetchTicker \/ RefreshDone
SpecBatch == InitBatch /\ [][NextBatch]_vars

\* a record is about to be scored, by a direct call or by the screening loop
InitScorer ==
    /\ feed = <<>> /\ spc = "idle"
    /\ position = [size |-> 0, price |-> 0, dt |-> 0]
    /\ buy_price = {} /\ order = {} /\ pending = <<>> /\ bcash = 0
    /\ persisted = [state |-> "missing", data |-> EmptyPortfolio]
    /\ portfolio = EmptyPortfolio
    /\ total_value = {} /\ msg = ""
    /\ quotes = [t \in LedgerTickers |-> NoHistory]
    /\ clicked = "none"
    /\ buy_stock = "" /\ buy_shares = 0 /\ current_price = {}
    /\ sell_stock = "" /\ sell_shares = 0
    /\ current_data = NoHistory
    /\ lpc = "idle"
    /\ tickers = <<>> /\ bpc = "idle"
    /\ stored = [t \in BatchTickers |-> "none"] /\ fetch_fresh = FALSE
    /\ bi = 0 /\ bj = 0 /\ processed = 0 /\ results = <<>> /\ fetched = {}
    /\ attempts = <<>> /\ outcome = <<>>
    /\ ticker \in LedgerTickers
    /\ data \in Records
    /\ score = {}
    /\ error_log = <<>>
    /\ bt_result = {}
    /\ upc \in {"score", "screen"}

NextScorer == Score \/ ScreenScore
SpecScorer == InitScorer /\ [][NextScorer]_vars

\* run_backtest(ticker, data) is called: cerebro set up as in lines 214-219
InitBacktest ==
    /\ feed = <<>>
    /\ spc = "advance"
    /\ position = [size |-> 0, price |-> 0, dt |-> 0]
    /\ buy_price = {}
    /\ order = {}
    /\ pending = <<>>
    /\ bcash = StartCash * 1000
    /\ persisted = [state |-> "missing", data |-> EmptyPortfolio]
    /\ portfolio = EmptyPortfolio
    /\ total_value = {} /\ msg = ""
    /\ quotes = [t \in LedgerTickers |-> NoHistory]
    /\ clicked = "none"
    /\ buy_stock = "" /\ buy_shares = 0 /\ current_price = {}
    /\ sell_stock = "" /\ sell_shares = 0
    /\ current_data = NoHistory
    /\ lpc = "idle"
    /\ tickers = <<>> /\ bpc = "idle"
    /\ stored = [t \in BatchTickers |-> "none"] /\ fetch_fresh = FALSE
    /\ bi = 0 /\ bj = 0 /\ processed = 0 /\ results = <<>> /\ fetched = {}
    /\ attempts = <<>> /\ outcome = <<>>
    /\ ticker \in LedgerTickers
    /\ data = NoData /\ score = {}
    /\ error_log = <<>>
    /\ bt_result = {}
    /\ upc = "backtest"

NextBacktest == Advance \/ next \/ Backtest
SpecBacktest == InitBacktest /\ [][NextBacktest]_vars

-----------------------------------------------------------------------------
(* Properties of the strategy (SpecStrategy).                                *)
(* A bar is evaluated in the step from spc = "next" to spc = "advance"; the  *)
(* state with spc = "advance" is the end of the bar.                         *)

Long == position.size > 0

\* The close of the current bar is at or below entry price * (1 - 0.07).
AtStopLoss ==
    /\ feed # <<>>
    /\ \E p \in buy_price : data_close(feed) * 100 <= p * (100 - stop_loss_percent)

\* The highest close since the bar the position was entered on.
HighWaterMark == MaxClose(SubSeq(feed, position.dt, Len(feed)))

\* The close of the current bar is at or below high-water-mark * (1 - 0.10).
AtTrailingStop ==
    /\ feed # <<>>
    /\ data_close(feed) * 100 <= HighWaterMark * (100 - trail_percent)

SellSubmitted == \E k \in 1..Len(pending') : ~pending'[k].isbuy
BuySubmitted == \E k \in 1..Len(pending') : pending'[k].isbuy

C2_TrailingStopExit ==
    [][ (spc = "next" /\ Long /\ AtTrailingStop) => SellSubmitted ]_vars

\* C3 as stated: from FLAT the strategy enters on a bar if and only if the
\* indicators are defined, close > SMA and close >= the maximum of the HIGH
\* prices over the trailing window.
C3_EntryRule ==
    [][ (spc = "next" /\ ~Long) =>
            (BuySubmitted <=>
                /\ Len(feed) >= MinPeriod
                /\ data_close(feed) * SmaPeriod > SumClose(LastN(feed, SmaPeriod))
                /\ data_close(feed) >= MaxHigh(LastN(feed, HighPeriod))) ]_vars

\* C4: at most one unsettled order at any time; no bar is evaluated while an
\* order is unsettled; the position is never more than one stake, and while
\* LONG no buy is in flight.
C4_SingleOrder ==
    /\ Len(pending) <= 1
    /\ spc = "next" => pending = <<>>
    /\ position.size <= Stake
    /\ Long => \A k \in 1..Len(pending) : ~pending[k].isbuy

\* C4 witness: the bar just evaluated carries the entry signal while LONG, and
\* no order was submitted.
C4_Witness ==
    /\ spc = "advance" /\ Long
    /\ AboveSma(feed) /\ data_close(feed) >= highest_high(feed)
    /\ pending = <<>>

-----------------------------------------------------------------------------
(* Properties of the paper portfolio (SpecLedger).                           *)

Idx(ps) == 1..Len(ps)

RECURSIVE SharesOf(_, _)
SharesOf(ps, t) ==
    IF ps = <<>> THEN 0
    ELSE (IF ps[1].ticker = t THEN ps[1].shares ELSE 0) + SharesOf(Tail(ps), t)

RECURSIVE CostOf(_, _)
CostOf(ps, t) ==
    IF ps = <<>> THEN 0
    ELSE (IF ps[1].ticker = t THEN ps[1].shares * ps[1].buy_price ELSE 0)
            + CostOf(Tail(ps), t)

\* The price a position is valued at: the current_price it carries, else the
\* close just looked up, else its buy price.
PriceOf(pos, h) ==
    IF pos.current_price # {} THEN Get(pos.current_price, 0)
    ELSE IF h.kind = "price" THEN h.close
    ELSE pos.buy_price

RECURSIVE MarkToMarket(_, _)
MarkToMarket(ps, hs) ==
    IF ps = <<>> THEN 0
    ELSE ps[1].shares * PriceOf(ps[1], hs[ps[1].ticker]) + MarkToMarket(Tail(ps), hs)

\* C5 as stated: cash >= 0, every stored position has shares > 0, and the total
\* reported equals cash + the sum over all positions of shares * current price,
\* positions whose lookup failed or that carry no current_price included.
C5_LedgerBalance ==
    /\ portfolio.cash >= 0
    /\ \A k \in Idx(portfolio.positions) : portfolio.positions[k].shares > 0
    /\ (lpc = "buttons" /\ total_value # {}) =>
            total_value = {portfolio.cash + MarkToMarket(portfolio.positions, quotes)}

\* C6 as stated: a buy the cash covers debits cash by shares * price and leaves
\* exactly one position of the ticker, holding the shares held before plus the
\* shares bought, at the weighted-average price.
C6_BuyMerges ==
    [][ (lpc = "buttons" /\ clicked' = "buy") =>
            \A p \in current_price' :
                LET t    == buy_stock'
                    n    == buy_shares'
                    held == SharesOf(portfolio.positions, t)
                    ps   == portfolio'.positions
                IN  n * p <= portfolio.cash =>
                        /\ portfolio'.cash = portfolio.cash - n * p
                        /\ Cardinality({k \in Idx(ps) : ps[k].ticker = t}) = 1
                        /\ \A k \in Idx(ps) : ps[k].ticker = t =>
                                /\ ps[k].shares = held + n
                                /\ ps[k].buy_price * (held + n)
                                      = CostOf(portfolio.positions, t) + n * p ]_vars

\* The position list with n shares taken from position k (removed at 0).
Without(ps, k, n) ==
    IF ps[k].shares = n
    THEN [j \in 1..(Len(ps) - 1) |-> IF j < k THEN ps[j] ELSE ps[j + 1]]
    ELSE [j \in Idx(ps) |-> IF j = k THEN [ps[j] EXCEPT !.shares = @ - n] ELSE ps[j]]

PositionHigh(pos, c) == Max(Max(pos.buy_price, Get(pos.current_price, 0)), c)

\* The LONG -> FLAT rule applied to a position and the history looked up.
ExitRule(pos, h) ==
    /\ h.kind = "price"
    /\ \/ h.close * 100 <= pos.buy_price * (100 - stop_loss_percent)
       \/ h.close * 100 <= PositionHigh(pos, h.close) * (100 - trail_percent)

RECURSIVE KeptBy(_, _)
KeptBy(ps, hs) ==
    IF ps = <<>> THEN <<>>
    ELSE (IF ExitRule(ps[1], hs[ps[1].ticker]) THEN <<>> ELSE <<ps[1]>>)
            \o KeptBy(Tail(ps), hs)

RECURSIVE ExitProceeds(_, _)
ExitProceeds(ps, hs) ==
    IF ps = <<>> THEN 0
    ELSE (IF ExitRule(ps[1], hs[ps[1].ticker])
          THEN ps[1].shares * hs[ps[1].ticker].close ELSE 0)
            + ExitProceeds(Tail(ps), hs)

Core(pos) == [ticker |-> pos.ticker, buy_price |-> pos.buy_price, shares |-> pos.shares]

\* C8 as stated: revalue removes a position, crediting cash with shares * price,
\* if and only if the latest price satisfies the exit rule; the other positions
\* are kept with shares and buy price unchanged.
C8_RevalueAutoExit ==
    [][ lpc = "revalue" =>
            LET kept == KeptBy(portfolio.positions, quotes')
            IN  /\ Len(portfolio'.positions) = Len(kept)
                /\ \A k \in Idx(kept) : Core(portfolio'.positions[k]) = Core(kept[k])
                /\ portfolio'.cash
                      = portfolio.cash + ExitProceeds(portfolio.positions, quotes') ]_vars

\* C9 as stated: an operation leaves the file either exactly as it was or
\* holding the full in-memory portfolio; after a successful sell, buy or revalue
\* it holds the in-memory portfolio, after a failed or rejected one it is as
\* it was.
InFile(pf) == [state |-> "ok", data |-> pf]

C9_PersistenceAtomic ==
    [][ /\ persisted' = persisted \/ persisted' = InFile(portfolio')
        /\ (lpc = "buttons" /\ msg' \in {"Sold", "Bought"}) => persisted' = InFile(portfolio')
        /\ (lpc = "buttons" /\ clicked' # "none" /\ msg' \notin {"Sold", "Bought"})
                => persisted' = persisted ]_vars

-----------------------------------------------------------------------------
(* Properties of the batch loops (SpecBatch).                                *)

\* C10: no ticker of the list is attempted twice; when the loop is over each
\* was attempted exactly once, whatever failed; the screening loop ends with
\* processed equal to the number of tickers, counting as it goes; and the
\* results of fetch_stock_data hold exactly the tickers whose fetch gave data.
C10_BatchIsolation ==
    /\ \A k \in Idx(tickers) : attempts[k] <= 1
    /\ bpc \in {"screened", "refreshed"} => \A k \in Idx(tickers) : attempts[k] = 1
    /\ bpc \in {"screen", "screened"} =>
            processed = Cardinality({k \in Idx(tickers) : attempts[k] = 1})
    /\ bpc = "screened" => processed = Len(tickers)
    /\ bpc = "refreshed" =>
            fetched = {tickers[k] : k \in {j \in Idx(tickers) : outcome[j] = "data"}}

\* C10 witness: fetch_stock_data is over, the fetch of one ticker failed and a
\* ticker after it in the list was fetched and is in the results.
C10_Witness ==
    /\ bpc = "refreshed"
    /\ \E j, k \in Idx(tickers) :
            /\ j < k
            /\ outcome[j] = "none" /\ outcome[k] = "data"
            /\ tickers[j] # tickers[k]
            /\ tickers[k] \in fetched /\ tickers[j] \notin fetched


-----------------------------------------------------------------------------
(* Properties of the scorer (SpecScorer).                                    *)

\* the call has returned (or raised) to its caller
Scored == upc = "scored" /\ score # {}

\* the record has fewer bars than the scorer requires
ShortRecord == Len(data.hist) < MinHist

\* the computation on the record raises: a key or column is missing, or a
\* field holds a string where a number is compared
Malformed ==
    \/ ~data.has_fundamentals
    \/ ~data.has_close
    \/ FundRaises(data.fundamentals)

\* C11 (scorer degraded results): score never raises to its caller; a record
\* with fewer than 200 bars gives (0,0,0) and no error-log entry; a record
\* whose computation raises gives (0,0,0) and exactly one error-log entry,
\* keyed by the record's ticker.
C11_ScorerDegraded ==
    Scored =>
        \A s \in score :
            /\ ~s.raised
            /\ ShortRecord => (s.ret = <<0, 0, 0>> /\ error_log = <<>>)
            /\ (~ShortRecord /\ Malformed) =>
                   /\ s.ret = <<0, 0, 0>>
                   /\ Len(error_log) = 1
                   /\ error_log[1].ticker = ticker

\* C12 (score composition): for a record with at least 200 bars, whatever
\* its fundamentals, fundamental_score is in {0,5,10,30,35,40,45,50,65,70,75,
\* 80}, technical_score is in {0,20,40,60,80}, total_score is their sum and
\* at most 160; a null field or indicator adds no points (the sub-score stays
\* within what the other criteria can give) and causes no error (nothing is
\* raised or logged for a record whose only irregularity is nulls).
C12_ScoreComposition ==
    (Scored /\ ~ShortRecord) =>
        \A s \in score : ~s.raised =>
            LET total == s.ret[1]
                fundamental == s.ret[2]
                technical == s.ret[3]
                fund == data.fundamentals
            IN  /\ fundamental \in {0, 5, 10, 30, 35, 40, 45, 50, 65, 70, 75, 80}
                /\ technical \in {0, 20, 40, 60, 80}
                /\ total = fundamental + technical
                /\ total <= 160
                /\ fund.eps_growth = Null => fundamental \in {0, 5, 10, 30, 35, 40}
                /\ fund.roe = Null => fundamental \in {0, 5, 10, 40, 45, 50}
                /\ fund.market_cap = Null => fundamental \in {0, 30, 40, 70}
                /\ fund.fiftyTwoWeekHigh = Null => technical <= 60
                /\ (data.ta.rsi = NaN \/ data.ta.prev_rsi = NaN) => technical <= 60
                /\ (data.ta.macd = {} \/ \E m \in data.ta.macd : m.macd = NaN) => technical <= 60
                /\ ~Malformed => error_log = <<>>

\* C12 witness: a record with enough bars, a null eps_growth and an undefined
\* RSI has been scored 40 + 60 from its other criteria.
C12_Witness ==
    /\ Scored /\ ~ShortRecord
    /\ data.fundamentals.eps_growth = Null
    /\ data.ta.rsi = NaN
    /\ score = {[raised |-> FALSE, ret |-> <<100, 40, 60>>]}
    /\ error_log = <<>>

-----------------------------------------------------------------------------
(* Properties of the backtest (SpecBacktest).                                *)

\* every bar of the series has the same open, high and close
Flat(f) == \A k \in 1..Len(f) : f[k].open = f[1].close /\ f[k].high = f[1].close /\ f[k].close = f[1].close

\* C13 (backtest on a flat series): on a constant-price series the strategy
\* submits no order on any bar, and when the series has at least 252 bars
\* run_backtest returns a result, not None, in which CAGR is 0, Max Drawdown
\* is 0 and Sharpe is undefined or 0.
C13_FlatBacktest ==
    [][ /\ (upc = "backtest" /\ spc = "next" /\ Flat(feed)) => pending' = <<>>
        /\ (bt_result = {} /\ bt_result' # {} /\ Flat(feed) /\ Len(feed) >= HighPeriod) =>
               \A r \in bt_result' :
                   /\ r.kind = "metrics"
                   /\ r.CAGR = 0
                   /\ r.MaxDrawdown = 0
                   /\ r.Sharpe \subseteq {0} ]_vars

====
